---- MODULE Spec2Model ----
(***************************************************************************)
(* Model of MCBmodule (src/MCBmodule.cpp): the per-axis motor controller   *)
(* that reads the LS7366R quadrature counter, steps a PID controller and   *)
(* encodes the effort as a 16-bit DAC command.                             *)
(*                                                                         *)
(* One action per public member function; each action is the whole call,   *)
(* including every call it makes on the encoder (enc_) and the PID (pid_). *)
(* The encoder is an environment: every enc_.init() answers TRUE or FALSE  *)
(* and every enc_.getCount() answers some 32-bit count.  The PID is the    *)
(* collaborator PID_f32: its gains and memory are state, the value its     *)
(* step returns is chosen by the environment.                              *)
(*                                                                         *)
(* Numbers.  int32_t values are TLC integers in [IntMin, IntMax].  A       *)
(* voltage (effort_, dacRange_) is an integer number of 2^-EffortBits V,   *)
(* a grid on which the float/double arithmetic of effortToDacCommand is    *)
(* exact up to the final truncation.  The float handed to pid_.step is a   *)
(* record [m, e] standing for m * 2^e with m odd (or m = e = 0), so that   *)
(* float(INT32_MAX) = 2^31 can be written down.                            *)
(***************************************************************************)
EXTENDS Integers, Sequences, FiniteSets

\* ------------------------------------------------------------ bounds ----

\* Small counts 0 .. MaxSmall, for the runs that do not need extreme counts.
MaxSmall == 1
\* Resolution of the voltage grid: one unit is 2^-EffortBits volt.
EffortBits == 1
\* The voltage grid of the quantization check spans -MaxVolt .. MaxVolt volts.
MaxVolt == 15
\* Gains are drawn from 0 .. MaxGain.
MaxGain == 1

\* ----------------------------------------------------- program constants

\* int maxAttempts = 5 (both init overloads)
maxAttempts == 5
\* uint8_t maxAttempts = 5 (resetCount)
maxResetAttempts == 5
\* full scale of the 16-bit DAC code
DacFullScale == 65535

IntMax == 2147483647
IntMin == (-IntMax) - 1

\* 2^24 + 1: the smallest positive int32 that float cannot hold
FirstInexact == 16777216 + 1

Scale == 2 ^ EffortBits

\* dacRange_ = {Vmin, Vmax}, in grid units
dacRangeDefault == <<(-10) * Scale, 10 * Scale>>

\* Other ranges with Vmin < Vmax, for the quantization check
DacRanges == {dacRangeDefault, <<0, 5 * Scale>>, <<(-5) * Scale, 10 * Scale>>}

\* ----------------------------------------------------------- input sets

\* the encoder's answers to the successive enc_.init() calls of one init call
EncAnswers == [1 .. maxAttempts -> BOOLEAN]

\* an encoder that answers the same at every attempt
SteadyAnswers == {[i \in 1 .. maxAttempts |-> b] : b \in BOOLEAN}

\* int32 values with the extremes: zero, the most negative count and a count
\* that float rounds
Int32Samples == {0, IntMin, FirstInexact}

SmallCounts == 0 .. MaxSmall

\* an uninitialised uint16_t
GarbageCmd == {0, 4660, DacFullScale}

EffortGrid == ((-MaxVolt) * Scale) .. (MaxVolt * Scale)

\* What the environment does in a run: the answers of enc_.init() (answers)
\* and enc_.getCount() (counts), the values pid_.step returns (outputs, in
\* grid units) and the arguments callers pass (desired, gains).

\* extreme counts and out-of-range efforts; a steady encoder, default gains
EnvControl ==
    [answers |-> SteadyAnswers, counts |-> Int32Samples, desired |-> Int32Samples,
     outputs |-> {(-15) * Scale, 1}, gains |-> {0}]

\* every pattern of enc_.init() answers; small counts, default gains
EnvInit ==
    [answers |-> EncAnswers, counts |-> SmallCounts, desired |-> SmallCounts,
     outputs |-> {1}, gains |-> {0}]

\* every gain in 0 .. MaxGain; a steady encoder, counts 0 and 1
EnvGains ==
    [answers |-> SteadyAnswers, counts |-> {0, 1}, desired |-> {0},
     outputs |-> {1}, gains |-> 0 .. MaxGain]

\* ------------------------------------------------- int32_t arithmetic

\* a - b lies in [IntMin, IntMax]; written so that no intermediate leaves it
FitsSub32(a, b) == IF b > 0 THEN a >= IntMin + b ELSE a <= IntMax + b

\* a - b reduced modulo 2^32 into [IntMin, IntMax], for a difference that does not fit
WrapSub32(a, b) ==
    IF b > 0
    THEN (a - IntMin) - (b + IntMin)
    ELSE (a + IntMin) - (b - IntMin)

\* countDesired_ - readCount(): signed overflow is undefined, so when the
\* difference does not fit the result is any of a few int32 values, the
\* two's-complement wrap among them
Sub32(a, b) ==
    IF FitsSub32(a, b) THEN {a - b} ELSE {WrapSub32(a, b), 0}

\* ------------------------------------------------ int32_t -> float

\* the largest k in 0..30 with 2^k <= m, for 0 < m <= IntMax
Log2Floor(m) == CHOOSE k \in 0 .. 30 : 2 ^ k <= m /\ (k = 30 \/ m < 2 ^ (k + 1))

\* m * 2^e with the factors of two moved from m into e
RECURSIVE Normalize(_, _)
Normalize(m, e) ==
    IF m = 0 THEN [m |-> 0, e |-> 0]
    ELSE IF m % 2 = 0 THEN Normalize(m \div 2, e + 1)
    ELSE [m |-> m, e |-> e]

\* the real number n, unrounded
RealOfInt(n) == Normalize(n, 0)

\* m > 0 rounded to 24 significant bits, ties to even
RoundMag24(m) ==
    LET k == Log2Floor(m) IN
    IF k <= 23 THEN Normalize(m, 0)
    ELSE LET sh  == k - 23
             ulp == 2 ^ sh
             q   == m \div ulp
             r   == m % ulp
             up  == 2 * r > ulp \/ (2 * r = ulp /\ q % 2 = 1)
         IN Normalize(IF up THEN q + 1 ELSE q, sh)

\* float(countError_) forgotten: the int handed over unrounded
ToFloat32_Exact(n) == RealOfInt(n)

\* float(n) for an int32_t n: round to nearest, ties to even
ToFloat32(n) ==
    IF n = 0 THEN [m |-> 0, e |-> 0]
    ELSE IF n = IntMin THEN [m |-> -1, e |-> 31]
    ELSE IF n < 0 THEN LET f == RoundMag24(-n) IN [m |-> -(f.m), e |-> f.e]
    ELSE RoundMag24(n)

\* ------------------------------------------------- effortToDacCommand

\* the effort after the saturation check
Saturate(effort, range) ==
    IF effort > range[2] THEN range[2]
    ELSE IF effort < range[1] THEN range[1]
    ELSE effort

\* static_cast<uint16_t> of a double in [0, 65536): the fraction is dropped
CastU16(num, den) == num \div den

\* effortToDacCommand with the two saturation tests swapped over
effortToDacCommand_SwappedClamp(effort, range) ==
    LET effortTemp == IF effort > range[2] THEN range[1]
                      ELSE IF effort < range[1] THEN range[2]
                      ELSE effort
    IN CastU16(DacFullScale * (effortTemp - range[1]), range[2] - range[1])

\* effortToDacCommand scaling by 2^16 - 2 instead of 2^16 - 1
effortToDacCommand_ShortScale(effort, range) ==
    CastU16((DacFullScale - 1) * (Saturate(effort, range) - range[1]),
            range[2] - range[1])

\* effortToDacCommand encoding the distance from Vmax instead of from Vmin
effortToDacCommand_Inverted(effort, range) ==
    CastU16(DacFullScale * (range[2] - Saturate(effort, range)),
            range[2] - range[1])

\* uint16_t MCBmodule::effortToDacCommand(float effort)
\* On the grid effortTemp - dacRange_[0] and dacRange_[1] - dacRange_[0] are
\* exact floats and 65535.0 times the first an exact double; the double
\* quotient is off by less than 2^-36, too little to cross an integer from a
\* fraction with a denominator of at most Vmax - Vmin grid units, so the
\* truncated quotient is the integer quotient.
effortToDacCommand(effort, range) ==
    LET effortTemp == Saturate(effort, range)
    IN CastU16(DacFullScale * (effortTemp - range[1]), range[2] - range[1])

\* round(65535 * (clamp(effort) - Vmin) / (Vmax - Vmin)), halves away from zero
RoundedCode(effort, range) ==
    (2 * DacFullScale * (Saturate(effort, range) - range[1]) + (range[2] - range[1]))
        \div (2 * (range[2] - range[1]))

\* ---------------------------------------------------------------- state

VARIABLES
    configured,     \* configured_
    motorPolarity,  \* motorPolarity_
    countDesired,   \* countDesired_
    countLast,      \* countLast_
    countError,     \* countError_
    effort,         \* effort_, in grid units
    dacRange,       \* dacRange_ = <<Vmin, Vmax>>, in grid units
    pid,            \* pid_: gains kp, ki, kd and the memory mem
    op,             \* the member function called last
    ret,            \* what it returned
    args,           \* the arguments it was called with
    calls,          \* the calls it made on enc_, pid_ and the quantizer, in order
    encEverOk,      \* history: some enc_.init() has answered TRUE
    qIn,            \* quantization check: the two efforts given
    qOut            \* quantization check: their two codes, <<>> before the call

vars == <<configured, motorPolarity, countDesired, countLast, countError, effort,
          dacRange, pid, op, args, ret, calls, encEverOk, qIn, qOut>>

ctrl == <<configured, motorPolarity, countDesired, countLast, countError, effort,
          pid, op, args, ret, calls, encEverOk>>

\* ------------------------------------------- calls on the collaborators

EncInit(ok)        == [c |-> "enc.init", ok |-> ok]
EncReset           == [c |-> "enc.resetCount"]
EncGetCount(n)     == [c |-> "enc.getCount", n |-> n]
PidInit            == [c |-> "pid.init"]
PidStepCall(x, u)  == [c |-> "pid.step", x |-> x, u |-> u]
PidResetCall       == [c |-> "pid.reset"]
DacCall(e, code)   == [c |-> "effortToDacCommand", e |-> e, code |-> code]

\* how many of the calls in log are calls of name
CountCalls(log, name) == Cardinality({i \in 1 .. Len(log) : log[i].c = name})

\* the positions in log of the calls of name, in order
RECURSIVE CallsOf(_, _)
CallsOf(log, name) ==
    IF log = <<>> THEN <<>>
    ELSE IF Head(log).c = name THEN <<Head(log)>> \o CallsOf(Tail(log), name)
    ELSE CallsOf(Tail(log), name)

\* ------------------------------------------------------------ PID_f32

\* pid_.init(kp, ki, kd) / pid_.setGains(kp, ki, kd): the gains are applied
PidSetGains(p, kp, ki, kd) == [p EXCEPT !.kp = kp, !.ki = ki, !.kd = kd]

\* pid_.reset(): the integrator and derivative memory are cleared
PidReset(p) == [p EXCEPT !.mem = <<>>]

\* pid_.step(x): the memory takes the sample in
PidStep(p, x) == [p EXCEPT !.mem = <<x>>]

\* ------------------------------------------------------------- Init

\* the members as the class declaration initialises them
CtorState ==
    /\ configured = FALSE
    /\ motorPolarity = TRUE
    /\ countDesired = 0
    /\ countLast = 0
    /\ countError = 0
    /\ effort = 0
    /\ pid = [kp |-> 0, ki |-> 0, kd |-> 0, mem |-> <<>>]
    /\ op = "ctor"
    /\ args = <<>>
    /\ ret = "void"
    /\ calls = <<>>
    /\ encEverOk = FALSE

Init ==
    /\ CtorState
    /\ dacRange = dacRangeDefault
    /\ qIn = <<0, 0>>
    /\ qOut = <<>>

\* ------------------------------------------------------------- init

\* the retry loop of init(kp, ki, kd) setting configured_ on a failed enc_.init()
RECURSIVE InitRetry3_InvertedTest(_, _, _, _)
InitRetry3_InvertedTest(cfg, attempts, answers, log) ==
    IF attempts < maxAttempts
    THEN LET a  == attempts + 1
             ok == answers[a]
         IN InitRetry3_InvertedTest(IF ok THEN cfg ELSE TRUE, a, answers,
                                    Append(log, EncInit(ok)))
    ELSE [configured |-> cfg, calls |-> log]

\* the retry loop of init(kp, ki, kd): no break, every attempt is made
RECURSIVE InitRetry3(_, _, _, _)
InitRetry3(cfg, attempts, answers, log) ==
    IF attempts < maxAttempts
    THEN LET a  == attempts + 1
             ok == answers[a]
         IN InitRetry3(IF ok THEN TRUE ELSE cfg, a, answers, Append(log, EncInit(ok)))
    ELSE [configured |-> cfg, calls |-> log]

\* the retry loop of init(void) setting configured_ whatever enc_.init() answers
RECURSIVE InitRetry0_IgnoresAnswer(_, _, _, _)
InitRetry0_IgnoresAnswer(cfg, attempts, answers, log) ==
    IF attempts < maxAttempts
    THEN [configured |-> TRUE, calls |-> Append(log, EncInit(answers[attempts + 1]))]
    ELSE [configured |-> cfg, calls |-> log]

\* the retry loop of init(void) with configured_ = enc_.init()
RECURSIVE InitRetry0_AssignsAnswer(_, _, _, _)
InitRetry0_AssignsAnswer(cfg, attempts, answers, log) ==
    IF attempts < maxAttempts
    THEN LET a  == attempts + 1
             ok == answers[a]
         IN IF ok
            THEN [configured |-> TRUE, calls |-> Append(log, EncInit(ok))]
            ELSE InitRetry0_AssignsAnswer(FALSE, a, answers, Append(log, EncInit(ok)))
    ELSE [configured |-> cfg, calls |-> log]

\* the retry loop of init(void): break on the first success
RECURSIVE InitRetry0(_, _, _, _)
InitRetry0(cfg, attempts, answers, log) ==
    IF attempts < maxAttempts
    THEN LET a  == attempts + 1
             ok == answers[a]
         IN IF ok
            THEN [configured |-> TRUE, calls |-> Append(log, EncInit(ok))]
            ELSE InitRetry0(cfg, a, answers, Append(log, EncInit(ok)))
    ELSE [configured |-> cfg, calls |-> log]

\* some enc_.init() of log answered TRUE
SomeEncInitOk(log) == \E i \in 1 .. Len(log) : log[i].c = "enc.init" /\ log[i].ok

\* init(kp, ki, kd) applying the gains only when the encoder came up
InitGains_GainsOnSuccess(E) ==
    \E kp \in E.gains, ki \in E.gains, kd \in E.gains, answers \in E.answers :
        LET r == InitRetry3(configured, 0, answers, <<PidInit>>) IN
        /\ pid' = (IF r.configured THEN PidSetGains(pid, kp, ki, kd) ELSE pid)
        /\ configured' = r.configured
        /\ calls' = r.calls
        /\ ret' = r.configured
        /\ op' = "init3"
        /\ args' = <<kp, ki, kd>>
        /\ encEverOk' = (encEverOk \/ SomeEncInitOk(r.calls))
        /\ UNCHANGED <<motorPolarity, countDesired, countLast, countError, effort,
                       dacRange, qIn, qOut>>

\* bool MCBmodule::init(float kp, float ki, float kd)
InitGains(E) ==
    \E kp \in E.gains, ki \in E.gains, kd \in E.gains, answers \in E.answers :
        LET r == InitRetry3(configured, 0, answers, <<PidInit>>) IN
        /\ pid' = PidSetGains(pid, kp, ki, kd)
        /\ configured' = r.configured
        /\ calls' = r.calls
        /\ ret' = r.configured
        /\ op' = "init3"
        /\ args' = <<kp, ki, kd>>
        /\ encEverOk' = (encEverOk \/ SomeEncInitOk(r.calls))
        /\ UNCHANGED <<motorPolarity, countDesired, countLast, countError, effort,
                       dacRange, qIn, qOut>>

\* bool MCBmodule::init(void)
InitVoid(E) ==
    \E answers \in E.answers :
        LET r == InitRetry0(configured, 0, answers, <<PidInit>>) IN
        /\ pid' = pid
        /\ configured' = r.configured
        /\ calls' = r.calls
        /\ ret' = r.configured
        /\ op' = "init0"
        /\ args' = <<>>
        /\ encEverOk' = (encEverOk \/ SomeEncInitOk(r.calls))
        /\ UNCHANGED <<motorPolarity, countDesired, countLast, countError, effort,
                       dacRange, qIn, qOut>>

\* ------------------------------------------------------------- step

\* the body of if (isConfigured()) with the PID stepped before the encoder is read
StepConfigured_PidBeforeRead(E) ==
    \E m \in E.counts, u \in E.outputs :
    \E ce \in Sub32(countDesired, m) :
        LET x == ToFloat32(countError)
            e == (IF motorPolarity THEN 1 ELSE -1) * u
            code == effortToDacCommand(e, dacRange)
        IN /\ countLast' = m
           /\ countError' = ce
           /\ pid' = PidStep(pid, x)
           /\ effort' = e
           /\ ret' = code
           /\ calls' = <<EncGetCount(m), PidStepCall(x, u), DacCall(e, code)>>

\* the body of if (isConfigured()) without the polarity factor
StepConfigured_IgnoresPolarity(E) ==
    \E m \in E.counts, u \in E.outputs :
    \E ce \in Sub32(countDesired, m) :
        LET x == ToFloat32(ce)
            e == u
            code == effortToDacCommand(e, dacRange)
        IN /\ countLast' = m
           /\ countError' = ce
           /\ pid' = PidStep(pid, x)
           /\ effort' = e
           /\ ret' = code
           /\ calls' = <<EncGetCount(m), PidStepCall(x, u), DacCall(e, code)>>

\* the body of if (isConfigured()) storing the saturated effort in effort_
StepConfigured_StoresClamped(E) ==
    \E m \in E.counts, u \in E.outputs :
    \E ce \in Sub32(countDesired, m) :
        LET x == ToFloat32(ce)
            e == (IF motorPolarity THEN 1 ELSE -1) * u
            code == effortToDacCommand(e, dacRange)
        IN /\ countLast' = m
           /\ countError' = ce
           /\ pid' = PidStep(pid, x)
           /\ effort' = Saturate(e, dacRange)
           /\ ret' = code
           /\ calls' = <<EncGetCount(m), PidStepCall(x, u), DacCall(e, code)>>

\* the body of if (isConfigured()): read, PID step, quantization
StepConfigured(E) ==
    \E m \in E.counts, u \in E.outputs :
    \E ce \in Sub32(countDesired, m) :
        LET x == ToFloat32(ce)
            e == (IF motorPolarity THEN 1 ELSE -1) * u
            code == effortToDacCommand(e, dacRange)
        IN /\ countLast' = m
           /\ countError' = ce
           /\ pid' = PidStep(pid, x)
           /\ effort' = e
           /\ ret' = code
           /\ calls' = <<EncGetCount(m), PidStepCall(x, u), DacCall(e, code)>>

\* the if not taken: dacCmd is returned as it was declared, uninitialised
StepSkipped ==
    /\ ret' \in GarbageCmd
    /\ calls' = <<>>
    /\ UNCHANGED <<countLast, countError, pid, effort>>

\* step() without the isConfigured() test
Step_Unguarded(E) ==
    /\ StepConfigured(E)
    /\ op' = "step"
    /\ args' = <<>>
    /\ UNCHANGED <<configured, motorPolarity, countDesired, dacRange, encEverOk,
                   qIn, qOut>>

\* uint16_t MCBmodule::step(void)
Step(E) ==
    /\ IF configured THEN StepConfigured(E) ELSE StepSkipped
    /\ op' = "step"
    /\ args' = <<>>
    /\ UNCHANGED <<configured, motorPolarity, countDesired, dacRange, encEverOk,
                   qIn, qOut>>

\* ----------------------------------------------- plain member functions

\* void MCBmodule::restartPid(void)
RestartPid ==
    /\ pid' = PidReset(pid)
    /\ op' = "restartPid"
    /\ args' = <<>>
    /\ ret' = "void"
    /\ calls' = <<PidResetCall>>
    /\ UNCHANGED <<configured, motorPolarity, countDesired, countLast, countError,
                   effort, dacRange, encEverOk, qIn, qOut>>

\* void MCBmodule::setMotorPolarity(bool polarity)
SetMotorPolarity ==
    \E polarity \in BOOLEAN :
        /\ motorPolarity' = polarity
        /\ op' = "setMotorPolarity"
        /\ args' = <<polarity>>
        /\ ret' = "void"
        /\ calls' = <<>>
        /\ UNCHANGED <<configured, countDesired, countLast, countError, effort,
                       dacRange, pid, encEverOk, qIn, qOut>>

\* void MCBmodule::setCountDesired(int32_t countDesired)
SetCountDesired(E) ==
    \E x \in E.desired :
        /\ countDesired' = x
        /\ op' = "setCountDesired"
        /\ args' = <<x>>
        /\ ret' = "void"
        /\ calls' = <<>>
        /\ UNCHANGED <<configured, motorPolarity, countLast, countError, effort,
                       dacRange, pid, encEverOk, qIn, qOut>>

\* readCount() storing the count in countDesired_ instead of countLast_
ReadCount_StoresInDesired(E) ==
    \E n \in E.counts :
        /\ countDesired' = n
        /\ ret' = n
        /\ op' = "readCount"
        /\ args' = <<>>
        /\ calls' = <<EncGetCount(n)>>
        /\ UNCHANGED <<configured, motorPolarity, countLast, countError, effort,
                       dacRange, pid, encEverOk, qIn, qOut>>

\* int32_t MCBmodule::readCount(void)
ReadCount(E) ==
    \E n \in E.counts :
        /\ countLast' = n
        /\ ret' = n
        /\ op' = "readCount"
        /\ args' = <<>>
        /\ calls' = <<EncGetCount(n)>>
        /\ UNCHANGED <<configured, motorPolarity, countDesired, countError, effort,
                       dacRange, pid, encEverOk, qIn, qOut>>

\* void MCBmodule::setGains(float kp, float ki, float kd)
SetGains(E) ==
    \E kp \in E.gains, ki \in E.gains, kd \in E.gains :
        /\ pid' = PidSetGains(pid, kp, ki, kd)
        /\ op' = "setGains"
        /\ args' = <<kp, ki, kd>>
        /\ ret' = "void"
        /\ calls' = <<>>
        /\ UNCHANGED <<configured, motorPolarity, countDesired, countLast, countError,
                       effort, dacRange, encEverOk, qIn, qOut>>

\* void MCBmodule::setKp(float kp)
SetKp(E) ==
    \E kp \in E.gains :
        /\ pid' = [pid EXCEPT !.kp = kp]
        /\ op' = "setKp"
        /\ args' = <<kp>>
        /\ ret' = "void"
        /\ calls' = <<>>
        /\ UNCHANGED <<configured, motorPolarity, countDesired, countLast, countError,
                       effort, dacRange, encEverOk, qIn, qOut>>

\* void MCBmodule::setKi(float ki)
SetKi(E) ==
    \E ki \in E.gains :
        /\ pid' = [pid EXCEPT !.ki = ki]
        /\ op' = "setKi"
        /\ args' = <<ki>>
        /\ ret' = "void"
        /\ calls' = <<>>
        /\ UNCHANGED <<configured, motorPolarity, countDesired, countLast, countError,
                       effort, dacRange, encEverOk, qIn, qOut>>

\* void MCBmodule::setKd(float kd)
SetKd(E) ==
    \E kd \in E.gains :
        /\ pid' = [pid EXCEPT !.kd = kd]
        /\ op' = "setKd"
        /\ args' = <<kd>>
        /\ ret' = "void"
        /\ calls' = <<>>
        /\ UNCHANGED <<configured, motorPolarity, countDesired, countLast, countError,
                       effort, dacRange, encEverOk, qIn, qOut>>

\* ------------------------------------------------------- resetCount

\* the members resetCount() works on, before its loop
ResetStart ==
    [success |-> FALSE, countLast |-> countLast, countDesired |-> countDesired,
     pid |-> pid, calls |-> <<>>]

\* one attempt whose read is not stored in countLast_
ResetAttempt_NoStore(st, n) ==
    [st EXCEPT !.calls = @ \o <<EncReset, EncGetCount(n)>>]

\* one attempt: enc_.resetCount(), then readCount() answering n
ResetAttempt(st, n) ==
    [st EXCEPT !.countLast = n, !.calls = @ \o <<EncReset, EncGetCount(n)>>]

\* the count read back was zero: success, PID restarted, desired count zeroed
ResetSucceed(st) ==
    [st EXCEPT !.success = TRUE, !.pid = PidReset(@), !.countDesired = 0,
               !.calls = Append(@, PidResetCall)]

\* the loop of resetCount() with the zero test inverted
RECURSIVE ResetRetry_InvertedTest(_, _, _)
ResetRetry_InvertedTest(attempt, st, counts) ==
    IF attempt < maxResetAttempts
    THEN UNION { LET s == ResetAttempt(st, n) IN
                 IF n # 0
                 THEN {ResetSucceed(s)}
                 ELSE ResetRetry_InvertedTest(attempt + 1, s, counts)
               : n \in counts }
    ELSE {st}

\* the loop of resetCount() without setCountDesired(0)
RECURSIVE ResetRetry_KeepsDesired(_, _, _)
ResetRetry_KeepsDesired(attempt, st, counts) ==
    IF attempt < maxResetAttempts
    THEN UNION { LET s == ResetAttempt(st, n) IN
                 IF n = 0
                 THEN {[ResetSucceed(s) EXCEPT !.countDesired = st.countDesired]}
                 ELSE ResetRetry_KeepsDesired(attempt + 1, s, counts)
               : n \in counts }
    ELSE {st}

\* the loop of resetCount() with restartPid() and setCountDesired(0) after the
\* loop instead of inside the zero test
RECURSIVE ResetRetry_RestartsOnFailure(_, _, _)
ResetRetry_RestartsOnFailure(attempt, st, counts) ==
    IF attempt < maxResetAttempts
    THEN UNION { LET s == ResetAttempt(st, n) IN
                 IF n = 0
                 THEN {ResetSucceed(s)}
                 ELSE ResetRetry_RestartsOnFailure(attempt + 1, s, counts)
               : n \in counts }
    ELSE {[ResetSucceed(st) EXCEPT !.success = FALSE]}

\* the loop of resetCount() with attempt <= maxAttempts as its test
RECURSIVE ResetRetry_ExtraAttempt(_, _, _)
ResetRetry_ExtraAttempt(attempt, st, counts) ==
    IF attempt <= maxResetAttempts
    THEN UNION { LET s == ResetAttempt(st, n) IN
                 IF n = 0
                 THEN {ResetSucceed(s)}
                 ELSE ResetRetry_ExtraAttempt(attempt + 1, s, counts)
               : n \in counts }
    ELSE {st}

\* the loop of resetCount(): every way it can end, one for each sequence of
\* counts the encoder answers
RECURSIVE ResetRetry(_, _, _)
ResetRetry(attempt, st, counts) ==
    IF attempt < maxResetAttempts
    THEN UNION { LET s == ResetAttempt(st, n) IN
                 IF n = 0
                 THEN {ResetSucceed(s)}
                 ELSE ResetRetry(attempt + 1, s, counts)
               : n \in counts }
    ELSE {st}

\* bool MCBmodule::resetCount(void)
ResetCount(E) ==
    \E r \in ResetRetry(0, ResetStart, E.counts) :
        /\ countLast' = r.countLast
        /\ countDesired' = r.countDesired
        /\ pid' = r.pid
        /\ calls' = r.calls
        /\ ret' = r.success
        /\ op' = "resetCount"
        /\ args' = <<>>
        /\ UNCHANGED <<configured, motorPolarity, countError, effort, dacRange,
                       encEverOk, qIn, qOut>>

\* --------------------------------------------------- the controller

\* any member function, called in an environment E
Controller(E) ==
    \/ InitGains(E)
    \/ InitVoid(E)
    \/ Step(E)
    \/ RestartPid
    \/ SetMotorPolarity
    \/ SetCountDesired(E)
    \/ ReadCount(E)
    \/ ResetCount(E)
    \/ SetGains(E)
    \/ SetKp(E)
    \/ SetKi(E)
    \/ SetKd(E)

Next == Controller(EnvControl)

NextInit == Controller(EnvInit)

NextGains == Controller(EnvGains)

\* the controller with extreme counts and efforts
Spec == Init /\ [][Next]_vars

\* the controller with every pattern of encoder bring-up answers
SpecInit == Init /\ [][NextInit]_vars

\* the controller with every gain
SpecGains == Init /\ [][NextGains]_vars

\* ------------------------------------------------- the quantizer alone

\* any range with Vmin < Vmax and any two efforts of the grid
InitQuant ==
    /\ CtorState
    /\ dacRange \in DacRanges
    /\ qIn \in EffortGrid \X EffortGrid
    /\ qOut = <<>>

\* effortToDacCommand called on each of the two efforts
Quantize ==
    /\ qOut = <<>>
    /\ qOut' = <<effortToDacCommand(qIn[1], dacRange),
                 effortToDacCommand(qIn[2], dacRange)>>
    /\ UNCHANGED <<ctrl, dacRange, qIn>>

NextQuant == Quantize

\* effortToDacCommand as a function of the effort and the range
SpecQuant == InitQuant /\ [][NextQuant]_vars

Vmin == dacRange[1]
Vmax == dacRange[2]

\* ================================================================ claims

IsInit == op \in {"init3", "init0"}

\* the enc_.init() calls of the last member function, in order
InitAttempts == CallsOf(calls, "enc.init")

\* the index of the first attempt that succeeded, maxAttempts if none did
FirstSuccess ==
    IF \E i \in 1 .. Len(InitAttempts) : InitAttempts[i].ok
    THEN CHOOSE i \in 1 .. Len(InitAttempts) :
            /\ InitAttempts[i].ok
            /\ \A j \in 1 .. (i - 1) : ~InitAttempts[j].ok
    ELSE maxAttempts

\* C1: in every init call, of either overload, a successful enc_.init() sets
\* configured and is the last attempt of the call: the number of attempts is
\* the index of the first success, or 5 when there is none.
C1_StopsAtFirstSuccess ==
    IsInit =>
        /\ SomeEncInitOk(calls) => configured
        /\ Len(InitAttempts) = FirstSuccess

\* C2: an init call returns true exactly when one of the enc_.init() attempts
\* of that call succeeded, whatever happened before the call.
C2_ReturnsReadyInThisCall ==
    IsInit => (ret = SomeEncInitOk(calls))

\* C3: when no enc_.init() has ever succeeded and all 5 attempts of an init
\* call fail, the call returns false and isConfigured() is false afterwards.
C3_AllAttemptsFail ==
    (IsInit /\ ~encEverOk /\ Len(InitAttempts) = maxAttempts /\ ~SomeEncInitOk(calls))
        => (ret = FALSE /\ configured = FALSE)

\* a second failing init call, of the overload with the break, on a
\* controller that was never ready
C3_Witness ==
    /\ op = "init0"
    /\ ~encEverOk
    /\ Len(InitAttempts) = maxAttempts
    /\ ~SomeEncInitOk(calls)
    /\ ret = FALSE
    /\ ~configured

\* C4: a step() while isConfigured() is false leaves countError, effort,
\* countLast and the PID as they were and calls neither the encoder nor the PID.
C4_UnconfiguredStepIsNoOp ==
    [][(op' = "step" /\ ~configured) =>
          /\ countError' = countError
          /\ effort' = effort
          /\ countLast' = countLast
          /\ pid' = pid
          /\ calls' = <<>>]_vars

\* an unconfigured step after a read has left a count in countLast
C4_Witness ==
    /\ op = "step"
    /\ ~configured
    /\ calls = <<>>
    /\ countLast # 0
    /\ ret \in GarbageCmd

\* what C5 says of a configured step apart from the value handed to the PID:
\* one read, one PID step, one quantization, in that order, each on the
\* result of the one before
StepChain ==
    /\ Len(calls) = 3
    /\ calls[1].c = "enc.getCount"
    /\ calls[2].c = "pid.step"
    /\ calls[3].c = "effortToDacCommand"
    /\ countLast = calls[1].n
    /\ FitsSub32(countDesired, countLast) => countError = countDesired - countLast
    /\ effort = (IF motorPolarity THEN 1 ELSE -1) * calls[2].u
    /\ calls[3].e = effort
    /\ ret = calls[3].code
    /\ ret = effortToDacCommand(effort, dacRange)

\* |n| <= 2^24: the int32 values float holds exactly
Float32Exact(n) == n # IntMin /\ n < FirstInexact /\ (-n) < FirstInexact

\* C5 as stated: a configured step reads once, steps the PID once and
\* quantizes once, in that order, and the PID is fed exactly countError.
C5_FedExactError ==
    (op = "step" /\ configured) =>
        /\ StepChain
        /\ calls[2].x = RealOfInt(countError)

\* C5 as amended: the PID is fed float(countError), which is countError itself
\* whenever |countError| <= 2^24.
C5_FedFloatOfError ==
    (op = "step" /\ configured) =>
        /\ StepChain
        /\ calls[2].x = ToFloat32(countError)
        /\ Float32Exact(countError) => calls[2].x = RealOfInt(countError)

\* a configured step whose error float cannot hold
C5_Witness ==
    /\ op = "step"
    /\ configured
    /\ countError = FirstInexact
    /\ calls[1].n = 0
    /\ calls[2].x # RealOfInt(countError)

\* the quantizer has been called on the two efforts
Quantized == qOut # <<>>

\* C6: whatever the effort, the code lies in 0 .. 65535; an effort at or above
\* Vmax gives 65535 and one at or below Vmin gives 0.
C6_CodeInRange ==
    Quantized =>
        \A i \in 1 .. 2 :
            /\ qOut[i] \in 0 .. DacFullScale
            /\ qIn[i] >= Vmax => qOut[i] = DacFullScale
            /\ qIn[i] <= Vmin => qOut[i] = 0

\* the range -10 V .. 10 V, an effort of 15 V and an effort below -10 V
C6_Witness ==
    /\ Quantized
    /\ dacRange = dacRangeDefault
    /\ qIn[1] = 15 * Scale
    /\ qOut[1] = DacFullScale
    /\ qIn[2] < Vmin
    /\ qOut[2] = 0

\* C7 as stated: the code is 65535 * (clamp(effort) - Vmin) / (Vmax - Vmin)
\* rounded to the nearest integer.
C7_CodeIsRounded ==
    Quantized => \A i \in 1 .. 2 : qOut[i] = RoundedCode(qIn[i], dacRange)

\* C7 as amended: the code is that quotient with its fraction dropped, the
\* largest integer not above it, so it is the rounded value or one less.
C7_CodeIsTruncated ==
    Quantized =>
        \A i \in 1 .. 2 :
            LET num == DacFullScale * (Saturate(qIn[i], dacRange) - Vmin)
                den == Vmax - Vmin
            IN /\ qOut[i] * den <= num
               /\ num < (qOut[i] + 1) * den
               /\ RoundedCode(qIn[i], dacRange) - qOut[i] \in {0, 1}

\* 0 V in -10 V .. 10 V: the quotient is 32767.5 and the code 32767
C7_Witness ==
    /\ Quantized
    /\ dacRange = dacRangeDefault
    /\ qIn[1] = 0
    /\ qOut[1] = 32767
    /\ RoundedCode(qIn[1], dacRange) = 32768

\* C8: the code does not decrease when the effort increases, and the
\* midpoint of the range gives 32767 or 32768.
C8_Monotonic ==
    Quantized =>
        /\ qIn[1] <= qIn[2] => qOut[1] <= qOut[2]
        /\ \A i \in 1 .. 2 : 2 * qIn[i] = Vmin + Vmax => qOut[i] \in {32767, 32768}

\* the midpoint of -10 V .. 10 V and a larger effort with a larger code
C8_Witness ==
    /\ Quantized
    /\ dacRange = dacRangeDefault
    /\ qIn[1] = 0
    /\ qIn[1] < qIn[2]
    /\ qOut[1] \in {32767, 32768}
    /\ qOut[1] < qOut[2]
    /\ qOut[2] < DacFullScale

\* the number of enc_.resetCount() calls of the last member function
Resets == CountCalls(calls, "enc.resetCount")

\* the counts read by the last member function, in order
Reads == CallsOf(calls, "enc.getCount")

\* the index of the first read of zero, maxResetAttempts if no read was zero
FirstZeroRead ==
    IF \E i \in 1 .. Len(Reads) : Reads[i].n = 0
    THEN CHOOSE i \in 1 .. Len(Reads) :
            /\ Reads[i].n = 0
            /\ \A j \in 1 .. (i - 1) : Reads[j].n # 0
    ELSE maxResetAttempts

\* C9: resetCount() makes attempts of one hardware reset followed by one read,
\* stops at the first read of zero and returns true then; it returns false
\* exactly when all 5 reads were non-zero.
C9_ResetAttempts ==
    op = "resetCount" =>
        /\ Resets = Len(Reads)
        /\ \A k \in 1 .. Resets :
              /\ calls[2 * k - 1].c = "enc.resetCount"
              /\ calls[2 * k].c = "enc.getCount"
        /\ Resets = FirstZeroRead
        /\ ret = (\E i \in 1 .. Len(Reads) : Reads[i].n = 0)
        /\ (ret = FALSE) = (Len(Reads) = maxResetAttempts
                            /\ \A i \in 1 .. Len(Reads) : Reads[i].n # 0)

\* the count reads zero at the third attempt
C9_Witness ==
    /\ op = "resetCount"
    /\ ret = TRUE
    /\ Resets = 3
    /\ Len(Reads) = 3
    /\ Reads[1].n # 0
    /\ Reads[2].n # 0
    /\ Reads[3].n = 0

\* after a resetCount() that returned true: desired and last count are zero
\* and the PID was reset once
ResetLeavesZero ==
    (op = "resetCount" /\ ret = TRUE) =>
        /\ countDesired = 0
        /\ countLast = 0
        /\ CountCalls(calls, "pid.reset") = 1
        /\ pid.mem = <<>>

\* a configured step directly follows a resetCount() that returned true
StepAfterReset == op = "resetCount" /\ ret = TRUE /\ configured /\ op' = "step"

\* C10 as stated: after a resetCount() that returned true the desired and the
\* last count are 0 and the PID was reset once, and a configured step that
\* comes next and reads m sets countError to -m.
C10_ErrorIsMinusCount ==
    /\ []ResetLeavesZero
    /\ [][StepAfterReset =>
            (countLast' # IntMin /\ countError' = 0 - countLast')]_vars

\* C10 as amended: countError is -m when -m is an int32, that is unless
\* m = -2^31.
C10_ErrorIsMinusCountIfInt32 ==
    /\ []ResetLeavesZero
    /\ [][(StepAfterReset /\ countLast' # IntMin) =>
            countError' = 0 - countLast']_vars

\* resetCount() succeeds at its third attempt on a configured controller
C10_Witness ==
    /\ op = "resetCount"
    /\ ret = TRUE
    /\ configured
    /\ Resets = 3
    /\ countDesired = 0
    /\ countLast = 0

\* C11: when resetCount() returns false, countDesired and the PID (gains and
\* memory) are what they were before the call, no pid_.reset() was issued and
\* countLast is the fifth read.
C11_FailedResetKeepsState ==
    [][(op' = "resetCount" /\ ret' = FALSE) =>
          /\ countDesired' = countDesired
          /\ pid' = pid
          /\ CountCalls(calls', "pid.reset") = 0
          /\ Len(CallsOf(calls', "enc.getCount")) = maxResetAttempts
          /\ countLast' = CallsOf(calls', "enc.getCount")[maxResetAttempts].n]_vars

\* a failed resetCount() on a controller with a desired count and a PID that
\* has taken a sample in, the fifth read differing from the fourth
C11_Witness ==
    /\ op = "resetCount"
    /\ ret = FALSE
    /\ countDesired # 0
    /\ pid.mem # <<>>
    /\ Len(Reads) = maxResetAttempts
    /\ Reads[4].n # Reads[5].n
    /\ countLast = Reads[5].n

\* the last member function was a resetCount() that returned true
ResetSucceeded == op = "resetCount" /\ ret = TRUE

\* C12: after setCountDesired(x), getCountDesired() returns x until the next
\* setCountDesired or successful resetCount; step, init, readCount, the gain
\* and polarity setters, restartPid and a failed resetCount leave it alone.
C12_DesiredKept ==
    /\ [](op = "setCountDesired" => countDesired = args[1])
    /\ [][countDesired' # countDesired =>
            (op' = "setCountDesired" \/ ResetSucceeded')]_vars

\* a failed resetCount() after setCountDesired(2^24 + 1) and a configured step
C12_Witness ==
    /\ op = "resetCount"
    /\ ret = FALSE
    /\ configured
    /\ countDesired = FirstInexact
    /\ countError = FirstInexact

\* the last member function was a step() on a configured controller
ConfiguredStep == op = "step" /\ configured

\* C13: in a configured step in which the PID returns u, effort is +u when
\* motorPolarity is true and -u when it is false, and motorPolarity is what
\* the most recent setMotorPolarity set.
C13_PolaritySign ==
    /\ [](ConfiguredStep =>
            /\ motorPolarity => effort = calls[2].u
            /\ ~motorPolarity => effort = 0 - calls[2].u)
    /\ [](op = "setMotorPolarity" => motorPolarity = args[1])
    /\ [][motorPolarity' # motorPolarity => op' = "setMotorPolarity"]_vars

\* a configured step with the polarity inverted and a PID output of -15 V
C13_Witness ==
    /\ ConfiguredStep
    /\ ~motorPolarity
    /\ calls[2].u = (-15) * Scale
    /\ effort = 15 * Scale

\* C14: every init and every resetCount() returns, after at most 5
\* enc_.init() calls, respectively at most 5 hardware resets and 5 reads; with
\* an encoder that has never answered well the result is false.
C14_BoundedRetries ==
    /\ ENABLED InitGains(EnvInit)
    /\ ENABLED InitVoid(EnvInit)
    /\ ENABLED ResetCount(EnvInit)
    /\ IsInit =>
          /\ Len(InitAttempts) \in 1 .. maxAttempts
          /\ ~encEverOk => (Len(InitAttempts) = maxAttempts /\ ret = FALSE)
    /\ op = "resetCount" =>
          /\ Resets \in 1 .. maxResetAttempts
          /\ Len(Reads) \in 1 .. maxResetAttempts
          /\ (\A i \in 1 .. Len(Reads) : Reads[i].n # 0) =>
                (Len(Reads) = maxResetAttempts /\ ret = FALSE)

\* a resetCount() that gave up after 5 non-zero reads on a controller whose
\* encoder never initialised
C14_Witness ==
    /\ op = "resetCount"
    /\ ~encEverOk
    /\ Resets = maxResetAttempts
    /\ Len(Reads) = maxResetAttempts
    /\ ret = FALSE

\* float MCBmodule::getKp(void) / getKi(void) / getKd(void)
getKp == pid.kp
getKi == pid.ki
getKd == pid.kd

\* C15: after init(kp, ki, kd) the first collaborator call was pid_.init, made
\* before every enc_.init(), and getKp/getKi/getKd are kp/ki/kd whether the
\* call returned true or false.
C15_GainsAppliedFirst ==
    op = "init3" =>
        /\ calls[1] = PidInit
        /\ \A i \in 2 .. Len(calls) : calls[i].c = "enc.init"
        /\ getKp = args[1]
        /\ getKi = args[2]
        /\ getKd = args[3]

\* an init(kp, ki, kd) that returned false and yet left new gains behind
C15_Witness ==
    /\ op = "init3"
    /\ ret = FALSE
    /\ args = <<1, 0, 1>>
    /\ <<getKp, getKi, getKd>> = <<1, 0, 1>>

\* C16: configured is true only if some enc_.init() has answered success
\* since construction; an init containing a successful attempt leaves
\* configured true, and a configured step recomputes countError and effort.
C16_ConfiguredIffInitSucceeded ==
    /\ op = "ctor" => ~configured
    /\ configured => encEverOk
    /\ (IsInit /\ SomeEncInitOk(calls)) => (configured /\ ret = TRUE)
    /\ ConfiguredStep =>
          /\ Len(calls) = 3
          /\ countLast = calls[1].n
          /\ countError \in Sub32(countDesired, countLast)
          /\ effort = (IF motorPolarity THEN 1 ELSE -1) * calls[2].u

\* an init(kp, ki, kd) whose first four attempts failed and whose fifth made
\* the controller configured
C16_Witness ==
    /\ op = "init3"
    /\ Len(InitAttempts) = maxAttempts
    /\ \A i \in 1 .. maxAttempts - 1 : ~InitAttempts[i].ok
    /\ InitAttempts[maxAttempts].ok
    /\ configured

\* the operations that issue no enc_.getCount()
NoReadOps ==
    {"init3", "init0", "restartPid", "setMotorPolarity", "setCountDesired",
     "setGains", "setKp", "setKi", "setKd"}

\* C17: countLast is the last enc_.getCount() answer: an operation that reads
\* leaves its last read in countLast, and countLast changes in no operation
\* that does not read (setCountDesired, init, unconfigured step, restartPid,
\* the gain and polarity setters).
C17_CountLastIsLastRead ==
    /\ [](Len(Reads) > 0 => countLast = Reads[Len(Reads)].n)
    /\ [](op \in NoReadOps \/ (op = "step" /\ ~configured) => Len(Reads) = 0)
    /\ [](op \in {"readCount", "resetCount"} \/ ConfiguredStep => Len(Reads) > 0)
    /\ [][CountCalls(calls', "enc.getCount") = 0 => countLast' = countLast]_vars

\* a setCountDesired that left a non-zero countLast alone
C17_Witness ==
    /\ op = "setCountDesired"
    /\ countLast = FirstInexact
    /\ countDesired = 0

\* C18: configured never goes from true to false.
C18_ConfiguredIsSticky == [][configured => configured']_vars

\* a configured controller after an init in which all 5 attempts failed
C18_Witness ==
    /\ IsInit
    /\ configured
    /\ Len(InitAttempts) = maxAttempts
    /\ ~SomeEncInitOk(calls)

\* C19: after a configured step effort is the sign-adjusted PID output itself,
\* also outside [Vmin, Vmax], where the returned code is 0 or 65535.
C19_EffortNotClamped ==
    ConfiguredStep =>
        LET e == (IF motorPolarity THEN 1 ELSE -1) * calls[2].u IN
        /\ effort = e
        /\ e > Vmax => ret = DacFullScale
        /\ e < Vmin => ret = 0

\* a configured step with an effort of 15 V, above Vmax, and full-scale code
C19_Witness ==
    /\ ConfiguredStep
    /\ effort > Vmax
    /\ effort = 15 * Scale
    /\ ret = DacFullScale

====
